---- MODULE Spec2Model ----
(***************************************************************************)
(* Model of pycalendar.py: generate_pdf / add_calendar_page / draw_cell /  *)
(* draw_month_label driving a ReportLab canvas.                            *)
(*                                                                         *)
(* Lengths are exact rationals, held as integer multiples of               *)
(* 1/UnitsPerPoint point.  UnitsPerPoint = 7 * 5^7 makes every division    *)
(* the code performs on the modelled page sizes exact (/50, *0.0025, /7,   *)
(* /rows, *0.028, *0.5, *1.3, *0.1), so \div below is exact division.      *)
(***************************************************************************)
EXTENDS Integers, Sequences, FiniteSets, TLC

\* ------------------------------------------------------------------------
\* Bounds of the model
\* ------------------------------------------------------------------------

\* Years the calls are made for: 2015, and 2024 (a leap year) up to
\* 2024 + YearSpan.  With all seven first weekdays these two years already
\* produce every shape of month grid (28..31 days, every start column).
YearSpan == 0

Years == {2015} \cup (2024 .. (2024 + YearSpan))

\* ------------------------------------------------------------------------
\* Module-level data of pycalendar.py
\* ------------------------------------------------------------------------

\* Length units per point: 7 * 5^7
UnitsPerPoint == 7 * 78125

\* Points per inch (reportlab.lib.units.inch)
PointsPerInch == 72

inch == PointsPerInch * UnitsPerPoint

\* calendar.MONDAY .. calendar.SUNDAY
MONDAY == 0

SUNDAY == 6

Weekdays == MONDAY .. SUNDAY

\* ORDINALS keyed by the days below ten only
ORDINALS_UnitsOnly == (1 :> <<"s", "t">>) @@ (2 :> <<"n", "d">>) @@ (3 :> <<"r", "d">>)

\* ORDINALS without its None key, and the None entry
ORDINALS == (1 :> <<"s", "t">>) @@ (2 :> <<"n", "d">>) @@ (3 :> <<"r", "d">>)
            @@ (21 :> <<"s", "t">>) @@ (22 :> <<"n", "d">>)
            @@ (23 :> <<"r", "d">>) @@ (31 :> <<"s", "t">>)

ORDINALS_None == <<"t", "h">>

\* dict.get(key, default)
DictGet(d, key, default) == IF key \in DOMAIN d THEN d[key] ELSE default

PaperSize == {"letter", "legal", "label_4x6", "label_4x8"}

\* PAPER_SIZES: (width, height) in points; pagesizes.letter = 8.5in x 11in,
\* pagesizes.legal = 8.5in x 14in
PAPER_SIZES == [s \in PaperSize |->
                  CASE s = "letter"    -> <<(17 * inch) \div 2, 11 * inch>>
                    [] s = "legal"     -> <<(17 * inch) \div 2, 14 * inch>>
                    [] s = "label_4x6" -> <<4 * inch, 6 * inch>>
                    [] s = "label_4x8" -> <<4 * inch, 8 * inch>>]

\* reportlab.lib.pagesizes.landscape
Landscape(sz) == IF sz[1] < sz[2] THEN <<sz[2], sz[1]>> ELSE sz

Font(name, fsize) == [name |-> name, size |-> fsize]

Geom(x, y, width, height) == [x |-> x, y |-> y, width |-> width, height |-> height]

Size(width, height) == [width |-> width, height |-> height]

Min(a, b) == IF a < b THEN a ELSE b

\* ------------------------------------------------------------------------
\* The calendar module (standard library) as add_calendar_page uses it
\* ------------------------------------------------------------------------

\* calendar.isleap
IsLeap(year) == year % 4 = 0 /\ (year % 100 # 0 \/ year % 400 = 0)

\* calendar.mdays, with February of a leap year
DaysInMonth(year, month) ==
    CASE month = 2 -> IF IsLeap(year) THEN 29 ELSE 28
      [] month \in {4, 6, 9, 11} -> 30
      [] OTHER -> 31

RECURSIVE DaysBeforeMonth(_, _)
DaysBeforeMonth(year, month) ==
    IF month = 1 THEN 0
    ELSE DaysBeforeMonth(year, month - 1) + DaysInMonth(year, month - 1)

\* datetime.date(year, month, day).toordinal(): 0001-01-01 is day 1
ToOrdinal(year, month, day) ==
    LET y == year - 1
    IN  y * 365 + (y \div 4) - (y \div 100) + (y \div 400)
        + DaysBeforeMonth(year, month) + day

\* calendar.weekday: 0 is Monday
Weekday(year, month, day) == (ToOrdinal(year, month, day) + 6) % 7

\* itermonthdays that pads as if every week began on Monday
IterMonthDaysMondayFirst(year, month, fwd) ==
    LET day1        == Weekday(year, month, 1)
        ndays       == DaysInMonth(year, month)
        days_before == day1 % 7
        days_after  == (0 - day1 - ndays) % 7
    IN  [i \in 1 .. (days_before + ndays + days_after) |->
            IF i <= days_before \/ i > days_before + ndays THEN 0
            ELSE i - days_before]

\* Calendar.itermonthdays: the days of the month padded with zeros to whole weeks
IterMonthDays(year, month, fwd) ==
    LET day1        == Weekday(year, month, 1)
        ndays       == DaysInMonth(year, month)
        days_before == (day1 - fwd) % 7
        days_after  == (fwd - day1 - ndays) % 7
    IN  [i \in 1 .. (days_before + ndays + days_after) |->
            IF i <= days_before \/ i > days_before + ndays THEN 0
            ELSE i - days_before]

\* calendar.monthcalendar under the module's current first weekday
MonthCalendar(year, month, fwd) ==
    LET days == IterMonthDays(year, month, fwd)
    IN  [r \in 1 .. (Len(days) \div 7) |-> SubSeq(days, 7 * (r - 1) + 1, 7 * r)]

\* ------------------------------------------------------------------------
\* Text
\* ------------------------------------------------------------------------

Digit == <<"0", "1", "2", "3", "4", "5", "6", "7", "8", "9">>

\* str(n) for n >= 0, as a sequence of characters
RECURSIVE Str(_)
Str(n) == IF n < 10 THEN <<Digit[n + 1]>>
          ELSE Str(n \div 10) \o <<Digit[(n % 10) + 1]>>

DigitValue(c) == (CHOOSE i \in 1 .. 10 : Digit[i] = c) - 1

\* int(s) for a sequence of decimal digits
RECURSIVE ParseInt(_)
ParseInt(s) == IF Len(s) = 0 THEN 0
          ELSE 10 * ParseInt(SubSeq(s, 1, Len(s) - 1)) + DigitValue(s[Len(s)])

\* calendar.month_abbr
month_abbr == << <<"J", "a", "n">>, <<"F", "e", "b">>, <<"M", "a", "r">>,
                 <<"A", "p", "r">>, <<"M", "a", "y">>, <<"J", "u", "n">>,
                 <<"J", "u", "l">>, <<"A", "u", "g">>, <<"S", "e", "p">>,
                 <<"O", "c", "t">>, <<"N", "o", "v">>, <<"D", "e", "c">> >>

\* canvas.stringWidth for digits in Helvetica: every digit advances 556/1000 em
\* (the one quantity rounded down to the length unit)
StringWidth(text, fontName, fontSize) == Len(text) * (((fontSize \div 25) * 139) \div 10)

\* ------------------------------------------------------------------------
\* add_calendar_page: derived constants and cell geometry
\* ------------------------------------------------------------------------

\* scale_factor, line_width, font, rows, the inset rect and cellsize
Layout(rect0, cal) ==
    LET scale_factor == Min(rect0.width, rect0.height)
        line_width   == scale_factor \div 400
        rows         == Len(cal)
        rect         == Geom(rect0.x + line_width, rect0.y + line_width,
                             rect0.width - (line_width * 2),
                             rect0.height - (line_width * 2))
    IN  [scale_factor |-> scale_factor,
         line_width   |-> line_width,
         font         |-> Font("Helvetica", (scale_factor \div 250) * 7),
         rows         |-> rows,
         rect         |-> rect,
         cellsize     |-> Size(rect.width \div 7, rect.height \div rows)]

\* SlotGeom anchored at the bottom edge of the row instead of its top edge
SlotGeomBottomAnchored(lay, row, col) ==
    Geom(lay.rect.x + (lay.cellsize.width * col),
         lay.rect.y + ((lay.rows - row - 1) * lay.cellsize.height),
         lay.cellsize.width,
         lay.cellsize.height)

\* The Geom handed to cell_cb / draw_month_label for slot (row, col), 0-based
SlotGeom(lay, row, col) ==
    Geom(lay.rect.x + (lay.cellsize.width * col),
         lay.rect.y + ((lay.rows - row) * lay.cellsize.height),
         lay.cellsize.width,
         lay.cellsize.height)

\* LabelSlot with the two branches exchanged
LabelSlotSwapped(cal) == IF cal[1][1] = 0 THEN <<Len(cal) - 1, 6>> ELSE <<0, 0>>

\* LabelSlot that always answers the upper-left slot
LabelSlotAlwaysTopLeft(cal) == <<0, 0>>

\* row, col of the month label
LabelSlot(cal) == IF cal[1][1] = 0 THEN <<0, 0>> ELSE <<Len(cal) - 1, 6>>

\* ------------------------------------------------------------------------
\* Canvas calls issued by the renderers
\* ------------------------------------------------------------------------

CanvasCall(op, x, y, width, height, text) ==
    [op |-> op, x |-> x, y |-> y, width |-> width, height |-> height, text |-> text]

\* Size(font.size * 0.5, font.size * 1.3)
Margin(font) == Size(font.size \div 2, (font.size \div 10) * 13)

\* draw_cell without the early return for day 0: the border is drawn anyway
draw_cell_NoSkip(day, rect, font, ordinals) ==
    LET margin      == Margin(font)
        dayStr      == Str(day)
        text_x      == rect.x + margin.width
        text_y      == rect.y - margin.height
    IN  << CanvasCall("rect", rect.x, rect.y - rect.height, rect.width, rect.height, <<>>) >>
        \o (IF day = 0 THEN <<>>
            ELSE << CanvasCall("drawString", text_x, text_y, 0, 0, dayStr) >>)
        \o (IF ordinals /\ day # 0
            THEN << CanvasCall("stringWidth", 0, 0, 0, 0, dayStr),
                    CanvasCall("drawString", text_x + StringWidth(dayStr, font.name, font.size),
                               text_y + (margin.height \div 10), 0, 0,
                               DictGet(ORDINALS, ParseInt(dayStr), ORDINALS_None)) >>
            ELSE <<>>)

\* draw_cell: the canvas calls it makes, in order
draw_cell(day, rect, font, ordinals) ==
    IF day = 0 THEN <<>>
    ELSE
      LET margin      == Margin(font)
          dayStr      == Str(day)
          text_x      == rect.x + margin.width
          text_y      == rect.y - margin.height
          ordinal_str == DictGet(ORDINALS, ParseInt(dayStr), ORDINALS_None)
          number_width == StringWidth(dayStr, font.name, font.size)
      IN  << CanvasCall("rect", rect.x, rect.y - rect.height, rect.width, rect.height, <<>>),
             CanvasCall("drawString", text_x, text_y, 0, 0, dayStr) >>
          \o (IF ordinals
              THEN << CanvasCall("stringWidth", 0, 0, 0, 0, dayStr),
                      CanvasCall("drawString", text_x + number_width,
                                 text_y + (margin.height \div 10), 0, 0, ordinal_str) >>
              ELSE <<>>)

\* draw_month_label: the canvas calls it makes
draw_month_label(year, month, rect, font) ==
    LET margin == Margin(font)
        text_x == rect.x + margin.width
        text_y == rect.y - margin.height
        text   == month_abbr[month] \o <<" ">> \o Str(year)
    IN  << CanvasCall("drawString", text_x, text_y, 0, 0, text) >>

\* ------------------------------------------------------------------------
\* State
\* ------------------------------------------------------------------------

VARIABLES
    pc,                     \* where the call is
    datetime_obj,           \* generate_pdf argument: [year, month]
    size,                   \* generate_pdf argument: the page size tuple
    ordinals,               \* generate_pdf argument
    first_weekday,          \* generate_pdf argument
    rect,                   \* add_calendar_page argument (margins applied)
    calendar_firstweekday,  \* the calendar module's process-wide first weekday
    canvas,                 \* the reportlab Canvas
    cal,                    \* add_calendar_page: the week grid
    lay,                    \* add_calendar_page: line_width, font, rows, rect, cellsize
    row,                    \* add_calendar_page: loop position
    col,
    before,                 \* history: canvas parameters when the with block was entered
    trace                   \* history: cell_cb / draw_month_label / showPage / save calls

vars == <<pc, datetime_obj, size, ordinals, first_weekday, rect, calendar_firstweekday,
          canvas, cal, lay, row, col, before, trace>>

argVars == <<datetime_obj, size, ordinals, first_weekday>>

locVars == <<cal, lay, row, col>>

NoGeom == Geom(0, 0, 0, 0)

NoLayout == [scale_factor |-> 0, line_width |-> 0, font |-> Font("", 0), rows |-> 0,
             rect |-> NoGeom, cellsize |-> Size(0, 0)]

\* The graphics state a fresh page starts with (Helvetica 12, line width 1)
InitialFont == Font("Helvetica", 12 * UnitsPerPoint)

InitialLineWidth == 1 * UnitsPerPoint

NoCanvas == [exists |-> FALSE, font |-> Font("", 0), lineWidth |-> 0, stack |-> <<>>,
             calls |-> <<>>, pages |-> 0, saved |-> FALSE]

\* Canvas(outfile, size): nothing is written to outfile before save()
NewCanvas == [exists |-> TRUE, font |-> InitialFont, lineWidth |-> InitialLineWidth,
              stack |-> <<>>, calls |-> <<>>, pages |-> 0, saved |-> FALSE]

\* The persistent drawing parameters and the save-stack depth of a canvas
Params(c) == [font |-> c.font, lineWidth |-> c.lineWidth, depth |-> Len(c.stack)]

\* What is remembered of the canvas when a with block is entered
Snapshot(c) == [params |-> Params(c), ncalls |-> Len(c.calls)]

Event(ev, r, c, day, g, raised) ==
    [ev |-> ev, row |-> r, col |-> c, day |-> day, rect |-> g, raised |-> raised]

\* An exception that is caught and dropped, the page then being finished
AfterRaiseSwallowed == "showPage"

\* Where control is once an exception is raised: no handler in cli,
\* generate_pdf or add_calendar_page catches it, the call is over
AfterRaise == "raised"

Init ==
    /\ pc = "idle"
    /\ datetime_obj = [year |-> 0, month |-> 0]
    /\ size = <<>>
    /\ ordinals = FALSE
    /\ first_weekday = SUNDAY
    /\ rect = NoGeom
    /\ calendar_firstweekday = MONDAY    \* the calendar module's default
    /\ canvas = NoCanvas
    /\ cal = <<>>
    /\ lay = NoLayout
    /\ row = 0
    /\ col = 0
    /\ before = Snapshot(NoCanvas)
    /\ trace = <<>>

\* ------------------------------------------------------------------------
\* Entry points
\* ------------------------------------------------------------------------

\* cli(): a valid date; generate_pdf is called with the default first_weekday
Cli ==
    /\ pc = "idle"
    /\ \E year \in Years, month \in 1 .. 12, sz \in PaperSize, landscape \in BOOLEAN,
          ord \in BOOLEAN :
          /\ datetime_obj' = [year |-> year, month |-> month]
          /\ size' = IF landscape THEN Landscape(PAPER_SIZES[sz]) ELSE PAPER_SIZES[sz]
          /\ ordinals' = ord
    /\ first_weekday' = SUNDAY
    /\ pc' = "generate_pdf"
    /\ UNCHANGED <<rect, calendar_firstweekday, canvas, locVars, before, trace>>

\* cli(): datetime.datetime(year, month, 1) raises ValueError for a month
\* outside 1..12, before generate_pdf is called
CliBadDate ==
    /\ pc = "idle"
    /\ \E year \in Years, month \in {0, 13} :
          datetime_obj' = [year |-> year, month |-> month]
    /\ pc' = AfterRaise
    /\ UNCHANGED <<size, ordinals, first_weekday, rect, calendar_firstweekday, canvas,
                   locVars, before, trace>>

\* Page size tuples a library caller passes: the paper sizes, and a tuple
\* that is not a (width, height) pair
CallerSizes == {PAPER_SIZES[s] : s \in PaperSize} \cup {<<4 * inch>>}

\* generate_pdf called as a library function, with any first_weekday
Call ==
    /\ pc = "idle"
    /\ \E year \in Years, month \in 1 .. 12, sz \in CallerSizes, ord \in BOOLEAN,
          fw \in Weekdays :
          /\ datetime_obj' = [year |-> year, month |-> month]
          /\ size' = sz
          /\ ordinals' = ord
          /\ first_weekday' = fw
    /\ pc' = "generate_pdf"
    /\ UNCHANGED <<rect, calendar_firstweekday, canvas, locVars, before, trace>>

\* ------------------------------------------------------------------------
\* generate_pdf
\* ------------------------------------------------------------------------

\* Size(*size), Canvas(outfile, size), the margins, up to the call of
\* add_calendar_page
GeneratePdf ==
    /\ pc = "generate_pdf"
    /\ Len(size) = 2
    /\ LET sz   == Size(size[1], size[2])
           wmar == sz.width \div 50
           hmar == sz.height \div 50
           in   == Size(sz.width - (2 * wmar), sz.height - (2 * hmar))
       IN  rect' = Geom(wmar, hmar, in.width, in.height)
    /\ canvas' = NewCanvas
    /\ pc' = "add_calendar_page"
    /\ UNCHANGED <<argVars, calendar_firstweekday, locVars, before, trace>>

\* Size(*size) raises TypeError when size is not a pair: no canvas yet
GeneratePdfBadSize ==
    /\ pc = "generate_pdf"
    /\ Len(size) # 2
    /\ pc' = AfterRaise
    /\ UNCHANGED <<argVars, rect, calendar_firstweekday, canvas, locVars, before, trace>>

\* ------------------------------------------------------------------------
\* Canvas operations
\* ------------------------------------------------------------------------

\* canvas.saveState(): push the drawing parameters
SaveState(c) ==
    [c EXCEPT !.stack = Append(@, [font |-> c.font, lineWidth |-> c.lineWidth])]

\* canvas.restoreState(): pop them
RestoreState(c) ==
    LET top == c.stack[Len(c.stack)]
    IN  [c EXCEPT !.stack = SubSeq(@, 1, Len(@) - 1),
                  !.font = top.font,
                  !.lineWidth = top.lineWidth]

SetFont(c, font) == [c EXCEPT !.font = font]

SetLineWidth(c, width) == [c EXCEPT !.lineWidth = width]

\* The canvas after the given calls were made on it
Issue(c, calls) == [c EXCEPT !.calls = @ \o calls]

\* canvas.showPage(): the page is finished and a fresh graphics state begins
ShowPageOn(c) ==
    [c EXCEPT !.pages = @ + 1, !.font = InitialFont, !.lineWidth = InitialLineWidth,
              !.stack = <<>>]

\* The body of every "with save_state(canvas):" block up to the callback:
\* saveState, setFont(*font), setLineWidth(line_width)
EnterBlock(c, l) == SetLineWidth(SetFont(SaveState(c), l.font), l.line_width)

\* save_state after its yield returns normally: restoreState
ExitBlock(c) == RestoreState(c)

\* save_state when the block raises: the generator has no try/finally, the
\* exception is thrown in at the yield and restoreState is never reached
ExitBlockOnRaise(c) == c

\* ------------------------------------------------------------------------
\* add_calendar_page
\* ------------------------------------------------------------------------

\* setfirstweekday, monthcalendar and the derived constants
AddCalendarPage ==
    /\ pc = "add_calendar_page"
    /\ calendar_firstweekday' = first_weekday
    /\ cal' = MonthCalendar(datetime_obj.year, datetime_obj.month, calendar_firstweekday')
    /\ lay' = Layout(rect, cal')
    /\ row' = 0
    /\ col' = 0
    /\ pc' = "loop"
    /\ UNCHANGED <<argVars, rect, canvas, before, trace>>

\* LoopNext with the inner loop one column short
LoopNextShortRow(grid, r, c) ==
    IF c + 2 < Len(grid[r + 1]) THEN [row |-> r, col |-> c + 1, done |-> FALSE]
    ELSE IF r + 1 < Len(grid) THEN [row |-> r + 1, col |-> 0, done |-> FALSE]
    ELSE [row |-> r, col |-> c, done |-> TRUE]

\* The nested for loops: the slot after (r, c), or done
LoopNext(grid, r, c) ==
    IF c + 1 < Len(grid[r + 1]) THEN [row |-> r, col |-> c + 1, done |-> FALSE]
    ELSE IF r + 1 < Len(grid) THEN [row |-> r + 1, col |-> 0, done |-> FALSE]
    ELSE [row |-> r, col |-> c, done |-> TRUE]

\* Entering the with block of one cell
CellEnter ==
    /\ pc = "loop"
    /\ before' = Snapshot(canvas)
    /\ canvas' = EnterBlock(canvas, lay)
    /\ pc' = "cell_cb"
    /\ UNCHANGED <<argVars, rect, calendar_firstweekday, locVars, trace>>

\* cell_cb (draw_cell) returns; the with block exits; the loops advance
CellCb ==
    /\ pc = "cell_cb"
    /\ LET day  == cal[row + 1][col + 1]
           g    == SlotGeom(lay, row, col)
           next == LoopNext(cal, row, col)
       IN  /\ canvas' = ExitBlock(Issue(canvas, draw_cell(day, g, lay.font, ordinals)))
           /\ trace' = Append(trace, Event("cell_cb", row, col, day, g, FALSE))
           /\ row' = next.row
           /\ col' = next.col
           /\ pc' = IF next.done THEN "label" ELSE "loop"
    /\ UNCHANGED <<argVars, rect, calendar_firstweekday, cal, lay, before>>

\* A canvas call made by draw_cell raises after k of its calls went through
CellRaise ==
    /\ pc = "cell_cb"
    /\ LET day   == cal[row + 1][col + 1]
           g     == SlotGeom(lay, row, col)
           calls == draw_cell(day, g, lay.font, ordinals)
       IN  \E k \in 0 .. (Len(calls) - 1) :
             /\ canvas' = ExitBlockOnRaise(Issue(canvas, SubSeq(calls, 1, k)))
             /\ trace' = Append(trace, Event("cell_cb", row, col, day, g, TRUE))
    /\ pc' = AfterRaise
    /\ UNCHANGED <<argVars, rect, calendar_firstweekday, locVars, before>>

\* Entering the with block of the month label
LabelEnter ==
    /\ pc = "label"
    /\ before' = Snapshot(canvas)
    /\ canvas' = EnterBlock(canvas, lay)
    /\ pc' = "draw_month_label"
    /\ UNCHANGED <<argVars, rect, calendar_firstweekday, locVars, trace>>

\* draw_month_label returns; the with block exits
LabelDraw ==
    /\ pc = "draw_month_label"
    /\ LET slot == LabelSlot(cal)
           g    == SlotGeom(lay, slot[1], slot[2])
       IN  /\ canvas' = ExitBlock(Issue(canvas,
                           draw_month_label(datetime_obj.year, datetime_obj.month, g, lay.font)))
           /\ trace' = Append(trace, Event("draw_month_label", slot[1], slot[2], 0, g, FALSE))
    /\ pc' = "showPage"
    /\ UNCHANGED <<argVars, rect, calendar_firstweekday, locVars, before>>

\* The drawString of draw_month_label raises
LabelRaise ==
    /\ pc = "draw_month_label"
    /\ LET slot == LabelSlot(cal)
           g    == SlotGeom(lay, slot[1], slot[2])
       IN  /\ canvas' = ExitBlockOnRaise(canvas)
           /\ trace' = Append(trace, Event("draw_month_label", slot[1], slot[2], 0, g, TRUE))
    /\ pc' = AfterRaise
    /\ UNCHANGED <<argVars, rect, calendar_firstweekday, locVars, before>>

\* canvas.showPage(); return canvas
ShowPage ==
    /\ pc = "showPage"
    /\ canvas' = ShowPageOn(canvas)
    /\ trace' = Append(trace, Event("showPage", 0, 0, 0, NoGeom, FALSE))
    /\ pc' = "save"
    /\ UNCHANGED <<argVars, rect, calendar_firstweekday, locVars, before>>

\* generate_pdf: .save() on the returned canvas writes the file
Save ==
    /\ pc = "save"
    /\ canvas' = [canvas EXCEPT !.saved = TRUE]
    /\ trace' = Append(trace, Event("save", 0, 0, 0, NoGeom, FALSE))
    /\ pc' = "returned"
    /\ UNCHANGED <<argVars, rect, calendar_firstweekday, locVars, before>>

Next ==
    \/ Cli
    \/ CliBadDate
    \/ Call
    \/ GeneratePdf
    \/ GeneratePdfBadSize
    \/ AddCalendarPage
    \/ CellEnter
    \/ CellCb
    \/ CellRaise
    \/ LabelEnter
    \/ LabelDraw
    \/ LabelRaise
    \/ ShowPage
    \/ Save

Spec == Init /\ [][Next]_vars

\* ------------------------------------------------------------------------
\* Properties
\* ------------------------------------------------------------------------

GridBuilt == cal # <<>>

CellEvents == {i \in DOMAIN trace : trace[i].ev = "cell_cb"}

LabelEvents == {i \in DOMAIN trace : trace[i].ev = "draw_month_label"}

\* Days of a month, from the calendar rule rather than from the model
MonthLength(year, month) ==
    IF month = 2
    THEN (IF (year % 4 = 0 /\ year % 100 # 0) \/ year % 400 = 0 THEN 29 ELSE 28)
    ELSE IF month \in {1, 3, 5, 7, 8, 10, 12} THEN 31 ELSE 30

\* Weekday (0 = Monday) of the 1st of a month, by Sakamoto's congruence
FirstWeekdayOfMonth(year, month) ==
    LET t == <<0, 3, 2, 5, 0, 3, 5, 1, 4, 6, 2, 4>>
        y == IF month < 3 THEN year - 1 ELSE year
        sundayBased == (y + (y \div 4) - (y \div 100) + (y \div 400) + t[month] + 1) % 7
    IN  (sundayBased + 6) % 7

\* The grid read in row-major order
Flat(grid) == [i \in 1 .. (7 * Len(grid)) |-> grid[((i - 1) \div 7) + 1][((i - 1) % 7) + 1]]

IsNonZero(d) == d # 0

\* C1: for every year, month and first_weekday the week grid has 4..6 rows
\* of exactly 7 columns, its non-zero entries in row-major order are exactly
\* 1..N (N the days of the month), zeros occur only before day 1 and after
\* day N, and day 1 sits in the column that is the offset of the month's
\* first weekday from first_weekday.
C1_WeekGrid ==
    GridBuilt =>
      LET n    == MonthLength(datetime_obj.year, datetime_obj.month)
          flat == Flat(cal)
          off  == (FirstWeekdayOfMonth(datetime_obj.year, datetime_obj.month)
                   - first_weekday) % 7
      IN  /\ Len(cal) \in 4 .. 6
          /\ \A r \in DOMAIN cal : Len(cal[r]) = 7
          /\ SelectSeq(flat, IsNonZero) = [i \in 1 .. n |-> i]
          /\ \A i \in DOMAIN flat :
                flat[i] = 0 => \/ \A j \in 1 .. i : flat[j] = 0
                               \/ \A j \in i .. Len(flat) : flat[j] = 0
          /\ cal[1][off + 1] = 1

\* A six-row grid (a 31-day month whose 1st is in the last column) was built
\* for a first weekday other than the default
C1_Witness ==
    /\ pc = "loop"
    /\ Len(cal) = 6
    /\ cal[1][7] = 1
    /\ cal[6][2] = 31
    /\ first_weekday = MONDAY

\* The target rectangle inset by line_width on all four sides
Inset == Geom(rect.x + lay.line_width, rect.y + lay.line_width,
              rect.width - (2 * lay.line_width), rect.height - (2 * lay.line_width))

\* A cell as draw_cell draws it: x .. x + width, y - height .. y
Left(g) == g.x

Right(g) == g.x + g.width

Top(g) == g.y

Bottom(g) == g.y - g.height

InteriorsOverlap(a, b) ==
    /\ Left(a) < Right(b)
    /\ Left(b) < Right(a)
    /\ Bottom(a) < Top(b)
    /\ Bottom(b) < Top(a)

Consecutive(S, a, b) == a \in S /\ b \in S /\ a < b /\ ~(\E m \in S : a < m /\ m < b)

\* The state in which the last cell callback has just returned
AllCellsCalled == pc = "label" /\ Cardinality(CellEvents) = 7 * Len(cal)

\* C2: the cell rectangles passed to cell_cb are pairwise non-overlapping in
\* their interiors, each lies inside the target rectangle inset by line_width
\* on all four sides, and together they cover that inset rectangle without a
\* gap: every box of the grid induced by the cells' edges and the inset's
\* edges lies in some cell, and each cell is 1/7 of the inset's width and
\* 1/rows of its height (so the 7 * rows cell areas sum to the inset's area).
C2_Tiling ==
    AllCellsCalled =>
      \A cells \in {[i \in CellEvents |-> trace[i].rect]} :
      \A xs \in {{Left(cells[i]) : i \in CellEvents} \cup {Right(cells[i]) : i \in CellEvents}
                  \cup {Left(Inset), Right(Inset)}} :
      \A ys \in {{Bottom(cells[i]) : i \in CellEvents} \cup {Top(cells[i]) : i \in CellEvents}
                  \cup {Inset.y, Inset.y + Inset.height}} :
          /\ rect.width > 0 /\ rect.height > 0
          /\ \A i \in CellEvents :
                /\ cells[i].width > 0 /\ cells[i].height > 0
                /\ Left(Inset) <= Left(cells[i])
                /\ Right(cells[i]) <= Right(Inset)
                /\ Inset.y <= Bottom(cells[i])
                /\ Top(cells[i]) <= Inset.y + Inset.height
                /\ cells[i].width * 7 = Inset.width
                /\ cells[i].height * Len(cal) = Inset.height
          /\ \A i, j \in CellEvents : i < j => ~InteriorsOverlap(cells[i], cells[j])
          /\ \A xa, xb \in xs :
                Consecutive(xs, xa, xb) =>
                  \A ya, yb \in ys :
                    Consecutive(ys, ya, yb) =>
                      \E i \in CellEvents :
                         /\ Left(cells[i]) <= xa /\ xb <= Right(cells[i])
                         /\ Bottom(cells[i]) <= ya /\ yb <= Top(cells[i])

\* All 42 cells of a six-row grid were handed out on a landscape letter page
C2_Witness ==
    /\ AllCellsCalled
    /\ Len(cal) = 6
    /\ size = Landscape(PAPER_SIZES["letter"])

LabelDrawn == LabelEvents # {}

\* The geometry the label was drawn with
LabelGeom == trace[CHOOSE i \in LabelEvents : TRUE].rect

\* The slot whose box ends at the inset rectangle's right and bottom edges
IsBottomRightSlot(g) ==
    /\ Right(g) = Right(Inset)
    /\ Bottom(g) = Inset.y
    /\ g.width * 7 = Inset.width
    /\ g.height * Len(cal) = Inset.height

\* The slot whose box starts at the inset rectangle's left and top edges
IsTopLeftSlot(g) ==
    /\ Left(g) = Left(Inset)
    /\ Top(g) = Inset.y + Inset.height
    /\ g.width * 7 = Inset.width
    /\ g.height * Len(cal) = Inset.height

FirstOnFirstWeekday ==
    FirstWeekdayOfMonth(datetime_obj.year, datetime_obj.month) = first_weekday

IsCall(year, month, fw) ==
    /\ datetime_obj = [year |-> year, month |-> month]
    /\ first_weekday = fw

\* C3: the month label is drawn with the geometry of slot (rows-1, 6)
\* exactly when the 1st of the month falls on first_weekday (grid[0][0] is
\* non-zero), and with the geometry of slot (0, 0) otherwise; January 2024
\* Sunday-first gives top-left, February 2015 Sunday-first bottom-right.
C3_LabelPlacement ==
    LabelDrawn =>
      /\ FirstOnFirstWeekday <=> cal[1][1] # 0
      /\ IF FirstOnFirstWeekday
         THEN IsBottomRightSlot(LabelGeom) /\ ~IsTopLeftSlot(LabelGeom)
         ELSE IsTopLeftSlot(LabelGeom) /\ ~IsBottomRightSlot(LabelGeom)
      /\ IsCall(2024, 1, SUNDAY) => IsTopLeftSlot(LabelGeom)
      /\ IsCall(2015, 2, SUNDAY) => IsBottomRightSlot(LabelGeom)

\* February 2015, Sunday first: the label was drawn in the bottom-right slot
C3_Witness ==
    /\ LabelDrawn
    /\ IsCall(2015, 2, SUNDAY)
    /\ trace[CHOOSE i \in LabelEvents : TRUE].row = Len(cal) - 1
    /\ trace[CHOOSE i \in LabelEvents : TRUE].col = 6
    /\ pc = "showPage"

LabelRow == trace[CHOOSE i \in LabelEvents : TRUE].row

LabelCol == trace[CHOOSE i \in LabelEvents : TRUE].col

\* The day value of the grid slot the label was drawn in
LabelSlotDay == cal[LabelRow + 1][LabelCol + 1]

TopLeftDay == cal[1][1]

BottomRightDay == cal[Len(cal)][7]

\* C4 as stated: the label's slot holds day 0 whenever the top-left or the
\* bottom-right corner cell is empty; it shares a slot with a real date only
\* when both corners hold dates, and then the slot used is the top-left one.
C4_Original ==
    LabelDrawn =>
      /\ (TopLeftDay = 0 \/ BottomRightDay = 0) => LabelSlotDay = 0
      /\ LabelSlotDay # 0 =>
            /\ TopLeftDay # 0 /\ BottomRightDay # 0
            /\ LabelRow = 0 /\ LabelCol = 0

\* C4 as amended: the label's slot holds day 0 whenever the top-left or the
\* bottom-right corner cell is empty; it shares a slot with a real date only
\* when both corners hold dates, and then the slot used is the bottom-right
\* one (row rows-1, col 6).
C4_LabelAvoidsDates ==
    LabelDrawn =>
      /\ (TopLeftDay = 0 \/ BottomRightDay = 0) => LabelSlotDay = 0
      /\ LabelSlotDay # 0 =>
            /\ TopLeftDay # 0 /\ BottomRightDay # 0
            /\ LabelRow = Len(cal) - 1 /\ LabelCol = 6

\* A month that fills its grid exactly (both corners hold dates): the label
\* was drawn over the last day
C4_Witness ==
    /\ LabelDrawn
    /\ TopLeftDay = 1
    /\ BottomRightDay = 28
    /\ LabelSlotDay = 28
    /\ pc = "returned"

Last == trace[Len(trace)]

\* A cell callback has just returned normally: the with block was left and
\* the next block not yet entered
CellJustReturned ==
    /\ pc \in {"loop", "label"}
    /\ trace # <<>>
    /\ Last.ev = "cell_cb"
    /\ ~Last.raised

\* The canvas calls made since the current with block was entered
Issued == SubSeq(canvas.calls, before.ncalls + 1, Len(canvas.calls))

CountOp(calls, op) == Cardinality({i \in DOMAIN calls : calls[i].op = op})

\* The decimal numeral of a day of the month
Numeral(d) == IF d < 10 THEN <<Digit[d + 1]>> ELSE <<Digit[(d \div 10) + 1], Digit[(d % 10) + 1]>>

\* C5: draw_cell called with day 0 issues no call on the canvas (no rect, no
\* drawString, no stringWidth) for either value of ordinals; called with a
\* day in 1..31 it issues exactly one rect and one drawString for the
\* number, plus exactly one more drawString (the suffix) iff ordinals.
C5_DrawCellCalls ==
    CellJustReturned =>
      IF Last.day = 0
      THEN Issued = <<>>
      ELSE /\ Last.day \in 1 .. 31
           /\ CountOp(Issued, "rect") = 1
           /\ Issued[1].op = "rect"
           /\ Issued[2].op = "drawString" /\ Issued[2].text = Numeral(Last.day)
           /\ CountOp(Issued, "drawString") = (IF ordinals THEN 2 ELSE 1)
           /\ ordinals => Issued[Len(Issued)].op = "drawString"

\* An empty trailing cell was rendered with ordinals on, after dated cells
\* had drawn: it added nothing
C5_Witness ==
    /\ CellJustReturned
    /\ Last.day = 0
    /\ Last.row > 0
    /\ ordinals
    /\ canvas.calls # <<>>

ExpectedSuffix(d) ==
    IF d \in {1, 21, 31} THEN <<"s", "t">>
    ELSE IF d \in {2, 22} THEN <<"n", "d">>
    ELSE IF d \in {3, 23} THEN <<"r", "d">>
    ELSE <<"t", "h">>

\* C9: with ordinals enabled the suffix draw_cell draws for day d in 1..31
\* is "st" for 1, 21, 31, "nd" for 2, 22, "rd" for 3, 23 and "th" for every
\* other day (4, 11, 12, 13 among them).
C9_OrdinalSuffix ==
    (CellJustReturned /\ ordinals /\ Last.day # 0) =>
      /\ Issued[Len(Issued)].op = "drawString"
      /\ Issued[Len(Issued)].text = ExpectedSuffix(Last.day)
      /\ Last.day \in {4, 11, 12, 13} => Issued[Len(Issued)].text = <<"t", "h">>

\* Day 22 was drawn with its suffix "nd"
C9_Witness ==
    /\ CellJustReturned
    /\ ordinals
    /\ Last.day = 22
    /\ Issued[Len(Issued)].text = <<"n", "d">>

\* C6 as stated: after every cell_cb invocation and after the label draw,
\* whether the draw routine returned or raised partway, the canvas's
\* persistent drawing parameters and save-stack depth equal those before it.
C6_Original ==
    (/\ pc \in {"loop", "label", "showPage", "raised"}
     /\ trace # <<>>
     /\ Last.ev \in {"cell_cb", "draw_month_label"}) =>
       Params(canvas) = before.params

InitialFirstWeekday == MONDAY

\* C7 as stated: once add_calendar_page / generate_pdf is over, the
\* calendar module's first-weekday setting has the value it had before the
\* call.
C7_Original ==
    pc \in {"returned", "raised"} => calendar_firstweekday = InitialFirstWeekday

CompletePage ==
    /\ Len(trace) = (7 * Len(cal)) + 3
    /\ \A k \in 1 .. (7 * Len(cal)) : trace[k].ev = "cell_cb" /\ ~trace[k].raised
    /\ trace[(7 * Len(cal)) + 1].ev = "draw_month_label"
    /\ ~trace[(7 * Len(cal)) + 1].raised
    /\ trace[(7 * Len(cal)) + 2].ev = "showPage"
    /\ trace[(7 * Len(cal)) + 3].ev = "save"
    /\ canvas.pages = 1

\* C8: generate_pdf either finalizes one complete page (all 7 * rows cell
\* callbacks, then the label, then showPage, then save) or writes nothing:
\* a failure before save leaves the call raised, is not followed by further
\* steps, and save is never called.
C8_AllOrNothing ==
    /\ canvas.saved => (GridBuilt /\ CompletePage /\ pc = "returned")
    /\ pc = "returned" => canvas.saved
    /\ (trace # <<>> /\ Last.raised) => pc = "raised"
    /\ (datetime_obj.month \in {0, 13} /\ pc # "idle") => pc = "raised"
    /\ (Len(size) # 2 /\ pc \notin {"idle", "generate_pdf"}) => pc = "raised"
    /\ pc = "raised" => ~canvas.saved /\ canvas.pages = 0 /\ ~ENABLED Next

\* A date cell raised after its border and number were drawn: the call is
\* over and nothing was saved
C8_Witness ==
    /\ pc = "raised"
    /\ trace # <<>>
    /\ Last.ev = "cell_cb"
    /\ Last.raised
    /\ Len(Issued) = 2
    /\ ~canvas.saved

\* C10: cell_cb is invoked exactly once per grid slot (empty ones included,
\* with day 0) in row-major order, the label is drawn exactly once and only
\* after the last cell callback returned, showPage is called exactly once,
\* after the label; each cell callback starts with the canvas font and line
\* width set to the derived font (0.028 * scale) and stroke (0.0025 * scale).
C10_CallOrder ==
    /\ \A k \in DOMAIN trace :
          /\ k <= 7 * Len(cal) =>
                /\ trace[k].ev = "cell_cb"
                /\ trace[k].row = (k - 1) \div 7
                /\ trace[k].col = (k - 1) % 7
                /\ trace[k].day = cal[trace[k].row + 1][trace[k].col + 1]
          /\ k = (7 * Len(cal)) + 1 => trace[k].ev = "draw_month_label"
          /\ k = (7 * Len(cal)) + 2 => trace[k].ev = "showPage"
          /\ k = (7 * Len(cal)) + 3 => trace[k].ev = "save"
          /\ k <= (7 * Len(cal)) + 3
          /\ trace[k].raised => k = Len(trace)
    /\ pc = "returned" => Len(trace) = (7 * Len(cal)) + 3
    /\ canvas.pages = CountOp([k \in DOMAIN trace |-> [op |-> trace[k].ev]], "showPage")
    /\ pc = "cell_cb" =>
          /\ canvas.font.name = "Helvetica"
          /\ canvas.font.size % 7 = 0
          /\ (canvas.font.size \div 7) * 250 = Min(rect.width, rect.height)
          /\ canvas.lineWidth * 400 = Min(rect.width, rect.height)

\* A five-row page is finished: 35 cell callbacks, the label, showPage, save
C10_Witness ==
    /\ pc = "returned"
    /\ Len(cal) = 5
    /\ Len(trace) = 38
    /\ trace[1].day = 0
    /\ trace[35].day = 0
    /\ trace[36].ev = "draw_month_label"

====
